---- MODULE Spec2Model ----
(***************************************************************************)
(* A model of thunder/rdds/imageblocks.py: the ImageBlocks partitioning    *)
(* strategy (split counts, slices, block extraction, temporal assembly),   *)
(* the reconstruction of series from blocks, the binary series label and   *)
(* the block size estimator.                                               *)
(*                                                                         *)
(* Python values are modelled as follows.                                  *)
(*   None            the empty tuple <<>>; a value v that may be None is   *)
(*                   carried as <<v>> (Some)                               *)
(*   slice(a, b, c)  a record [start, stop, step] of such optional values  *)
(*   ndarray         a record [shape, data]: data maps every 0-based index *)
(*                   tuple of the shape to the element stored there        *)
(*   tuple, list     a sequence                                            *)
(*   str             a string                                              *)
(***************************************************************************)
EXTENDS Integers, Sequences, FiniteSets, TLC

VARIABLES
    pc,            \* where the strategy object is in its life: new, constructed, ready, failed
    splitsPerDim,  \* self._splitsPerDim
    slices,        \* self._slices (None until setImages)
    npartitions,   \* self._npartitions
    dims,          \* self.dims, set by setImages
    nimages,       \* self.nimages, set by setImages
    images,        \* the records (tpidx, imgary) of the Images being partitioned
    op,            \* the name of the last operation called
    arg,           \* its argument
    ret,           \* its return value (None when it raised)
    err,           \* the exception it raised ("" when it returned)
    rdd,           \* the records of the RDD the toBlocks/toSeries pipeline has produced so far
    last           \* the block size and the result of the generateFromBlockSize call
                   \* before the last one (None when there was none)

vars == <<pc, splitsPerDim, slices, npartitions, dims, nimages, images, op, arg, ret, err, rdd,
          last>>

----------------------------------------------------------------------------
(* Bounds of the model. *)

\* largest size of a spatial dimension of the generated volumes
MaxDim == 3
\* largest number of timepoints (images) of the generated volumes
MaxT == 2
\* largest size of a dimension handed to the block size estimator
MaxEstDim == 5
\* largest number of images handed to the block size estimator
MaxEstImages == 3
\* largest block size in bytes requested from the estimator
MaxBlockSize == 21
\* largest of the small coordinates of a spatial key that is labelled
MaxCoord == 5
\* largest number of coordinates of a spatial key that is labelled
MaxKeyLen == 3

----------------------------------------------------------------------------
(* Python values. *)

None == <<>>
Some(v) == <<v>>
IsNone(o) == Len(o) = 0
Val(o) == o[1]

Min(a, b) == IF a < b THEN a ELSE b
Max(a, b) == IF a > b THEN a ELSE b

RECURSIVE Prod(_)
Prod(s) == IF s = <<>> THEN 1 ELSE s[1] * Prod(Tail(s))

RECURSIVE Sum(_)
Sum(s) == IF s = <<>> THEN 0 ELSE s[1] + Sum(Tail(s))

Reversed(s) == [i \in 1..Len(s) |-> s[Len(s) + 1 - i]]

\* the sequences of seqs one after the other
RECURSIVE Concat(_)
Concat(seqs) == IF seqs = <<>> THEN <<>> ELSE seqs[1] \o Concat(Tail(seqs))

\* all sequences over S whose length is in lens
RECURSIVE SeqsOfLen(_, _)
SeqsOfLen(S, n) == IF n = 0 THEN {<<>>}
                   ELSE {<<x>> \o r : x \in S, r \in SeqsOfLen(S, n - 1)}

\* slice(a, b, c) and slice(None)
Slice(a, b, c) == [start |-> Some(a), stop |-> Some(b), step |-> Some(c)]
SliceNone == [start |-> None, stop |-> None, step |-> None]

----------------------------------------------------------------------------
(* Python floats: IEEE 754 binary64, round to nearest, ties to even.        *)
(* A float is a record [sign, m, e] of value sign * m * 2^e, with sign in   *)
(* {-1, 0, 1} and m a natural number below 2^53. The values of this module  *)
(* are far from the overflow and underflow thresholds. m is kept as the     *)
(* sequence of its digits in base 2^13, the least significant first, since  *)
(* it does not fit the integers of the model checker.                       *)

Base == 8192
BaseBits == 13
MantissaBits == 53

\* the digits of a natural number
RECURSIVE BigFromInt(_)
BigFromInt(n) == IF n = 0 THEN <<>> ELSE <<n % Base>> \o BigFromInt(n \div Base)

\* x without its most significant zeros
RECURSIVE BigNorm(_)
BigNorm(x) ==
    IF x = <<>> THEN <<>>
    ELSE IF x[Len(x)] = 0 THEN BigNorm(SubSeq(x, 1, Len(x) - 1))
    ELSE x

\* the digits of the number whose columns (sums of digit products) are cols
RECURSIVE BigCarry(_, _, _)
BigCarry(cols, i, c) ==
    IF i > Len(cols) THEN BigFromInt(c)
    ELSE <<(cols[i] + c) % Base>> \o BigCarry(cols, i + 1, (cols[i] + c) \div Base)

RECURSIVE BigColumn(_, _, _, _)
BigColumn(x, y, k, i) ==
    IF i > Min(Len(x), k) THEN 0
    ELSE x[i] * y[k + 1 - i] + BigColumn(x, y, k, i + 1)

\* x * y
BigMul(x, y) ==
    IF x = <<>> \/ y = <<>> THEN <<>>
    ELSE BigNorm(BigCarry([k \in 1..(Len(x) + Len(y) - 1) |->
                            BigColumn(x, y, k, Max(1, k + 1 - Len(y)))], 1, 0))

\* x * c and x + 1, c a small natural number
BigMulSmall(x, c) == BigNorm(BigCarry([k \in 1..Len(x) |-> x[k] * c], 1, 0))
BigInc(x) == BigCarry(x, 1, 1)

\* the quotient and the remainder of x by a small positive d
RECURSIVE BigDivLoop(_, _, _, _)
BigDivLoop(x, i, r, d) ==
    IF i = 0 THEN [q |-> <<>>, r |-> r]
    ELSE LET cur == r * Base + x[i]
             rest == BigDivLoop(x, i - 1, cur % d, d)
         IN [q |-> rest.q \o <<cur \div d>>, r |-> rest.r]

BigNormQuotient(res) == [q |-> BigNorm(res.q), r |-> res.r]
BigDivSmall(x, d) == BigNormQuotient(BigDivLoop(x, Len(x), 0, d))

\* the number of bits of a natural number
RECURSIVE BitLen(_)
BitLen(n) == IF n = 0 THEN 0 ELSE 1 + BitLen(n \div 2)

BigBits(x) == IF x = <<>> THEN 0 ELSE BaseBits * (Len(x) - 1) + BitLen(x[Len(x)])

\* x * 2^s
BigShl(x, s) ==
    IF x = <<>> THEN <<>>
    ELSE [i \in 1..(s \div BaseBits) |-> 0] \o BigMulSmall(x, 2 ^ (s % BaseBits))

\* x div 2^s, and whether a bit other than 0 was shifted out
BigShr(x, s) ==
    LET dropped == Min(s \div BaseBits, Len(x))
        res == BigDivSmall(SubSeq(x, dropped + 1, Len(x)), 2 ^ (s % BaseBits))
    IN [q |-> res.q,
        sticky |-> res.r # 0 \/ \E i \in 1..dropped : x[i] # 0]

\* -1, 0 or 1 as x is below, equal to or above y
RECURSIVE BigCmpFrom(_, _, _)
BigCmpFrom(x, y, i) ==
    IF i = 0 THEN 0
    ELSE IF x[i] < y[i] THEN -1
    ELSE IF x[i] > y[i] THEN 1
    ELSE BigCmpFrom(x, y, i - 1)

BigCmp(x, y) ==
    IF Len(x) < Len(y) THEN -1
    ELSE IF Len(x) > Len(y) THEN 1
    ELSE BigCmpFrom(x, y, Len(x))

\* the float sign * m * 2^e, m of at most MantissaBits + 1 bits after rounding
FloatRenorm(sign, m, e) ==
    IF BigBits(m) > MantissaBits
    THEN [sign |-> sign, m |-> BigDivSmall(m, 2).q, e |-> e + 1]
    ELSE [sign |-> sign, m |-> m, e |-> e]

\* round to nearest, ties to even: m is the mantissa cut to MantissaBits bits,
\* half the first bit cut away, sticky whether a later one was not 0
FloatNearest(sign, m, half, sticky, e) ==
    FloatRenorm(sign, IF half /\ (sticky \/ m[1] % 2 = 1) THEN BigInc(m) ELSE m, e)

\* x holds one bit more than the mantissa
FloatRoundShifted(sign, x, inexact, e) ==
    FloatNearest(sign, BigDivSmall(x.q, 2).q, x.q[1] % 2 = 1, x.sticky \/ inexact, e)

\* the float nearest to sign * (n + f) * 2^e, where 0 <= f < 1 and f # 0 iff
\* inexact; n has more than MantissaBits + 1 bits whenever inexact holds
FloatRound(sign, n, inexact, e) ==
    IF n = <<>> THEN [sign |-> 0, m |-> <<>>, e |-> 0]
    ELSE IF BigBits(n) <= MantissaBits THEN [sign |-> sign, m |-> n, e |-> e]
    ELSE FloatRoundShifted(sign, BigShr(n, BigBits(n) - MantissaBits - 1), inexact,
                           e + BigBits(n) - MantissaBits)

Sign(n) == IF n < 0 THEN -1 ELSE IF n > 0 THEN 1 ELSE 0
Abs(n) == IF n < 0 THEN -n ELSE n

\* float(n)
FloatOfInt(n) == [sign |-> Sign(n), m |-> BigFromInt(Abs(n)), e |-> 0]

\* the bits computed beyond the binary point by a division
DivBits == 6 * BaseBits

\* n / float(d), n and d integers, d > 0
FloatRoundQuotient(sign, res) == FloatRound(sign, res.q, res.r # 0, -DivBits)
FloatDivInt(n, d) ==
    FloatRoundQuotient(Sign(n), BigDivSmall(BigShl(BigFromInt(Abs(n)), DivBits), d))

\* x * y
FloatMul(x, y) == FloatRound(x.sign * y.sign, BigMul(x.m, y.m), FALSE, x.e + y.e)

\* x < y
FloatLess(x, y) ==
    IF x.sign # y.sign THEN x.sign < y.sign
    ELSE IF x.sign = 0 THEN FALSE
    ELSE LET e == Min(x.e, y.e)
         IN x.sign * BigCmp(BigShl(x.m, x.e - e), BigShl(y.m, y.e - e)) < 0

----------------------------------------------------------------------------
(* numpy arrays. *)

\* the index tuples of an array of the given shape, 0-based
RECURSIVE Indices(_)
Indices(shape) ==
    IF shape = <<>> THEN {<<>>}
    ELSE {<<i>> \o r : i \in 0..(shape[1] - 1), r \in Indices(Tail(shape))}

\* numpy.zeros(shape, dtype)
zeros(shape) == [shape |-> shape, data |-> [idx \in Indices(shape) |-> 0]]

\* slice.indices(n) for the unit-step slices this module builds: the first
\* index and the number of indices a slice selects on an axis of length n
SliceStart(sl, n) == IF IsNone(sl.start) THEN 0 ELSE Min(Val(sl.start), n)
SliceStop(sl, n) == IF IsNone(sl.stop) THEN n ELSE Min(Val(sl.stop), n)
SliceLen(sl, n) == Max(0, SliceStop(sl, n) - SliceStart(sl, n))

\* the shape of ary[sls], sls one slice per axis
RegionShape(shape, sls) == [i \in 1..Len(shape) |-> SliceLen(sls[i], shape[i])]

\* ary[sls]: basic slicing, one slice per axis
GetItem(ary, sls) ==
    LET shp == RegionShape(ary.shape, sls)
    IN [shape |-> shp,
        data |-> [idx \in Indices(shp) |->
                    ary.data[[i \in 1..Len(shp) |->
                                idx[i] + SliceStart(sls[i], ary.shape[i])]]]]

\* ary[sls] = block, block of the rank of ary: numpy broadcasts an axis of
\* length 1 of the block over the region, and raises ValueError when another
\* axis of the block differs from the region's
SetItemFits(ary, sls, block) ==
    LET region == RegionShape(ary.shape, sls)
    IN /\ Len(block.shape) = Len(region)
       /\ \A i \in 1..Len(region) : block.shape[i] = region[i] \/ block.shape[i] = 1

SetItem(ary, sls, block) ==
    LET region == RegionShape(ary.shape, sls)
        st == [i \in 1..Len(ary.shape) |-> SliceStart(sls[i], ary.shape[i])]
        inRegion(idx) == \A i \in 1..Len(idx) :
                            /\ idx[i] >= st[i]
                            /\ idx[i] < st[i] + region[i]
    IN [shape |-> ary.shape,
        data |-> [idx \in Indices(ary.shape) |->
                    IF inRegion(idx)
                    THEN block.data[[i \in 1..Len(idx) |->
                                        IF block.shape[i] = 1 THEN 0 ELSE idx[i] - st[i]]]
                    ELSE ary.data[idx]]]

\* numpy.expand_dims(ary, axis=0)
expand_dims(ary) ==
    LET shp == <<1>> \o ary.shape
    IN [shape |-> shp, data |-> [idx \in Indices(shp) |-> ary.data[Tail(idx)]]]

\* ary.squeeze(): the axes of length 1 are removed
RECURSIVE KeptAxes(_, _)
KeptAxes(shape, i) ==
    IF i > Len(shape) THEN <<>>
    ELSE (IF shape[i] = 1 THEN <<>> ELSE <<i>>) \o KeptAxes(shape, i + 1)

squeeze(ary) ==
    LET kept == KeptAxes(ary.shape, 1)
        shp == [j \in 1..Len(kept) |-> ary.shape[kept[j]]]
        full(idx) == [i \in 1..Len(ary.shape) |->
                        IF \E j \in 1..Len(kept) : kept[j] = i
                        THEN idx[CHOOSE j \in 1..Len(kept) : kept[j] = i]
                        ELSE 0]
    IN [shape |-> shp, data |-> [idx \in Indices(shp) |-> ary.data[full(idx)]]]

----------------------------------------------------------------------------
(* ImageBlocksGroupingKey. *)

ImageBlocksGroupingKey(origshape, origslices) ==
    [origshape |-> origshape, origslices |-> origslices]

\* the start of the first slice (None for the full slice of an assembled block)
temporalKey(key) == key.origslices[1].start

\* the starts of the spatial slices; these are always integers
spatialKey(key) == [i \in 1..(Len(key.origslices) - 1) |-> Val(key.origslices[i + 1].start)]

----------------------------------------------------------------------------
(* ImageBlocksPartitioningStrategy. *)

\* __normalizeSplits: the splits when all are positive, ValueError otherwise
normalizeSplitsOk(sp) == \A i \in 1..Len(sp) : sp[i] > 0

\* __validateSplitsForImage: only the lengths are compared
validateSplitsForImageOk(sp, dm) == Len(sp) = Len(dm)

\* dimslicesLoop without the extra unit of the first blockrem slices
RECURSIVE dimslicesLoopNoRemainder(_, _, _, _, _, _)
dimslicesLoopNoRemainder(blockidx, nsplits, st, blocksize, blockrem, dimsize) ==
    IF blockidx >= nsplits THEN <<>>
    ELSE LET en == st + blocksize
         IN <<Slice(st, Min(en, dimsize), 1)>>
            \o dimslicesLoopNoRemainder(blockidx + 1, nsplits, en, blocksize, blockrem, dimsize)

\* the loop over blockidx of __generateSlices, for one dimension
RECURSIVE dimslicesLoop(_, _, _, _, _, _)
dimslicesLoop(blockidx, nsplits, st, blocksize, blockrem, dimsize) ==
    IF blockidx >= nsplits THEN <<>>
    ELSE LET en == IF blockrem # 0 THEN st + blocksize + 1 ELSE st + blocksize
             rem == IF blockrem # 0 THEN blockrem - 1 ELSE blockrem
         IN <<Slice(st, Min(en, dimsize), 1)>>
            \o dimslicesLoop(blockidx + 1, nsplits, en, blocksize, rem, dimsize)

\* __generateSlices: zip stops at the shorter of the two sequences
generateSlices(sp, dm) ==
    [i \in 1..Min(Len(sp), Len(dm)) |->
        dimslicesLoop(0, sp[i], 0, dm[i] \div sp[i], dm[i] % sp[i], dm[i])]

\* itertools.product(*seqs): the first sequence varies slowest
RECURSIVE product(_)
product(seqs) ==
    IF seqs = <<>> THEN << <<>> >>
    ELSE LET rest == product(Tail(seqs))
             n == Len(rest)
         IN [k \in 1..(Len(seqs[1]) * n) |->
                <<seqs[1][((k - 1) \div n) + 1]>> \o rest[((k - 1) % n) + 1]]

\* extractBlockFromImage with the number of timepoints left out of origshape
extractBlockFromImageNoTimeAxis(imgary, blockslices, timepoint, numtimepoints) ==
    [key |-> ImageBlocksGroupingKey(imgary.shape,
                                    <<Slice(timepoint, timepoint + 1, 1)>> \o blockslices),
     val |-> expand_dims(GetItem(imgary, blockslices))]

\* extractBlockFromImage
extractBlockFromImage(imgary, blockslices, timepoint, numtimepoints) ==
    [key |-> ImageBlocksGroupingKey(<<numtimepoints>> \o imgary.shape,
                                    <<Slice(timepoint, timepoint + 1, 1)>> \o blockslices),
     val |-> expand_dims(GetItem(imgary, blockslices))]

\* partitionFunction, on a strategy with the given slices and nimages
partitionFunction(sls, totnumimages, tpidx, imgary) ==
    LET sliceproduct == product(sls)
    IN [k \in 1..Len(sliceproduct) |->
            extractBlockFromImage(imgary, sliceproduct[k], tpidx, totnumimages)]

\* blockingLoop with a collection array of the shape of the first block
RECURSIVE blockingLoopBlockShape(_, _, _, _)
blockingLoopBlockShape(partitionedSequence, i, ary, firstkey) ==
    IF i > Len(partitionedSequence)
    THEN [ary |-> ary, firstkey |-> firstkey, err |-> ""]
    ELSE LET key == partitionedSequence[i].key
             block == partitionedSequence[i].val
             ary1 == IF IsNone(ary) THEN zeros(block.shape) ELSE Val(ary)
             fk == IF IsNone(ary) THEN Some(key) ELSE firstkey
             targslices == <<key.origslices[1]>>
                            \o [j \in 1..(Len(block.shape) - 1) |-> SliceNone]
         IN IF SetItemFits(ary1, targslices, block)
            THEN blockingLoopBlockShape(partitionedSequence, i + 1,
                                        Some(SetItem(ary1, targslices, block)), fk)
            ELSE [ary |-> Some(ary1), firstkey |-> fk, err |-> "ValueError"]

\* blockingFunction's loop over the group: the collection array, the first
\* key and the exception raised by an assignment that does not fit
RECURSIVE blockingLoop(_, _, _, _)
blockingLoop(partitionedSequence, i, ary, firstkey) ==
    IF i > Len(partitionedSequence)
    THEN [ary |-> ary, firstkey |-> firstkey, err |-> ""]
    ELSE LET key == partitionedSequence[i].key
             block == partitionedSequence[i].val
             newshape == <<key.origshape[1]>> \o Tail(block.shape)
             ary1 == IF IsNone(ary) THEN zeros(newshape) ELSE Val(ary)
             fk == IF IsNone(ary) THEN Some(key) ELSE firstkey
             targslices == <<key.origslices[1]>>
                            \o [j \in 1..(Len(block.shape) - 1) |-> SliceNone]
         IN IF SetItemFits(ary1, targslices, block)
            THEN blockingLoop(partitionedSequence, i + 1,
                              Some(SetItem(ary1, targslices, block)), fk)
            ELSE [ary |-> Some(ary1), firstkey |-> fk, err |-> "ValueError"]

\* blockingFunction with a check of the group, which raises ValueError when
\* the group is empty
blockingFunctionChecked(partitionedSequence) ==
    LET r == blockingLoop(partitionedSequence, 1, None, None)
    IN IF r.err # "" \/ IsNone(r.firstkey) THEN [err |-> "ValueError", ret |-> None]
       ELSE LET firstkey == Val(r.firstkey)
                neworigslices == <<SliceNone>> \o Tail(firstkey.origslices)
            IN [err |-> "",
                ret |-> Some([key |-> ImageBlocksGroupingKey(firstkey.origshape, neworigslices),
                              val |-> Val(r.ary)])]

\* blockingFunction((spatialIdx, partitionedSequence)): firstkey is still None
\* after the loop over an empty sequence, and firstkey.origslices then raises
\* AttributeError
blockingFunction(partitionedSequence) ==
    LET r == blockingLoop(partitionedSequence, 1, None, None)
    IN IF r.err # "" THEN [err |-> r.err, ret |-> None]
       ELSE IF IsNone(r.firstkey) THEN [err |-> "AttributeError", ret |-> None]
       ELSE LET firstkey == Val(r.firstkey)
                neworigslices == <<SliceNone>> \o Tail(firstkey.origslices)
            IN [err |-> "",
                ret |-> Some([key |-> ImageBlocksGroupingKey(firstkey.origshape, neworigslices),
                              val |-> Val(r.ary)])]

----------------------------------------------------------------------------
(* _BlockMemoryAsSequence, _BlockMemoryAsReversedSequence and               *)
(* generateFromBlockSize.                                                   *)

\* the loop of indtosub over the dimensions, the last one first
RECURSIVE indtosubLoop(_, _, _, _)
indtosubLoop(dm, didx, sub, idx) ==
    IF didx = 0 THEN sub
    ELSE LET delta == Min(dm[didx] - 1, idx)
             sub1 == IF delta > 0 THEN [sub EXCEPT ![didx] = @ + delta] ELSE sub
             idx1 == IF delta > 0 THEN idx - delta ELSE idx
         IN IF idx1 <= 0 THEN sub1 ELSE indtosubLoop(dm, didx - 1, sub1, idx1)

\* _BlockMemoryAsSequence.indtosub
indtosub(dm, idx) == indtosubLoop(dm, Len(dm), [i \in 1..Len(dm) |-> 1], idx)

\* _BlockMemoryAsSequence.__len__
seqLen(dm) == Sum([i \in 1..Len(dm) |-> dm[i] - 1]) + 1

\* _BlockMemoryAsSequence.blockMemoryForSplits: reduce(mul, sz), a float
RECURSIVE reduceMul(_)
reduceMul(sz) ==
    IF Len(sz) = 1 THEN sz[1]
    ELSE FloatMul(reduceMul(SubSeq(sz, 1, Len(sz) - 1)), sz[Len(sz)])

blockMemoryForSplits(dm, sub) ==
    reduceMul([i \in 1..Min(Len(dm), Len(sub)) |-> FloatDivInt(dm[i], sub[i])])

\* _BlockMemoryAsReversedSequence._reverseIdx, for an index within range
\* (IndexError otherwise)
reverseIdxOk(dm, idx) == idx >= 0 /\ idx < seqLen(dm)
\* the index is not reversed
reverseIdxIdentity(dm, idx) == idx
reverseIdx(dm, idx) == seqLen(dm) - (idx + 1)

\* _BlockMemoryAsReversedSequence.indtosub and __getitem__
reversedIndtosub(dm, idx) == indtosub(dm, reverseIdx(dm, idx))
getitem(dm, item) == blockMemoryForSplits(dm, reversedIndtosub(dm, item))

\* bisect.bisect_left(memseq, x, lo, hi)
RECURSIVE bisect_left(_, _, _, _)
bisect_left(dm, x, lo, hi) ==
    IF lo < hi
    THEN LET mid == (lo + hi) \div 2
         IN IF FloatLess(getitem(dm, mid), x)
            THEN bisect_left(dm, x, mid + 1, hi)
            ELSE bisect_left(dm, x, lo, mid)
    ELSE lo

\* numpy.dtype(datatype).itemsize
itemsize(datatype) ==
    CASE datatype = "uint8" -> 1
      [] datatype = "int16" -> 2
      [] datatype = "float32" -> 4
      [] datatype = "float64" -> 8

\* generateFromBlockSize, for a number as blockSize: the splitsPerDim handed
\* to the constructor
clampIdx(tmpidx, len) == IF tmpidx = len THEN tmpidx - 1 ELSE tmpidx
generateFromBlockSize(blockSize, dm, n, datatype) ==
    LET minseriessize == n * itemsize(datatype)
    IN reversedIndtosub(dm, clampIdx(bisect_left(dm, FloatDivInt(blockSize, minseriessize),
                                                 0, seqLen(dm)),
                                     seqLen(dm)))

----------------------------------------------------------------------------
(* ImageBlocks. *)

\* xrange(start, stop, step), step > 0
xrange(start, stop, step) ==
    [i \in 1..(IF stop > start THEN (stop - start + step - 1) \div step ELSE 0) |->
        start + (i - 1) * step]

\* _get_range_iterators
get_range_iterators(sls, shape) ==
    [sliceidx \in 1..Len(sls) |->
        LET sl == sls[sliceidx]
            start == IF IsNone(sl.start) THEN 0 ELSE Val(sl.start)
            stop == IF IsNone(sl.stop) THEN shape[sliceidx] ELSE Val(sl.stop)
            step == IF IsNone(sl.step) THEN 1 ELSE Val(sl.step)
        IN xrange(start, stop, step)]

\* the slices toSeriesIter builds for one index sequence of the product
seriesSlices(expandedIdxSeq, origslices) ==
    [d \in 1..Min(Len(expandedIdxSeq), Len(origslices)) |->
        IF IsNone(expandedIdxSeq[d]) THEN SliceNone
        ELSE LET idx == Val(expandedIdxSeq[d])
                 start == IF origslices[d] # SliceNone
                          THEN idx - Val(origslices[d].start)
                          ELSE idx
             IN Slice(start, start + 1, 1)]

\* toSeriesIter without the correction of the index by the start of the slice
toSeriesIterNoOffset(partitioningkey, ary) ==
    LET rangeiters == Tail(get_range_iterators(partitioningkey.origslices,
                                               partitioningkey.origshape))
        idxSeqs == product(Reversed(rangeiters))
    IN [k \in 1..Len(idxSeqs) |->
            LET idxSeq == idxSeqs[k]
                sls == <<SliceNone>> \o [j \in 1..Len(idxSeq) |->
                            Slice(Reversed(idxSeq)[j], Reversed(idxSeq)[j] + 1, 1)]
            IN [key |-> Reversed(idxSeq), series |-> squeeze(GetItem(ary, sls))]]

\* toSeriesIter: the (key, series) pairs in the order they are yielded
toSeriesIter(partitioningkey, ary) ==
    LET rangeiters == Tail(get_range_iterators(partitioningkey.origslices,
                                               partitioningkey.origshape))
        idxSeqs == product(Reversed(rangeiters))
    IN [k \in 1..Len(idxSeqs) |->
            LET idxSeq == idxSeqs[k]
                expandedIdxSeq == <<None>> \o [j \in 1..Len(idxSeq) |-> Some(Reversed(idxSeq)[j])]
            IN [key |-> Reversed(idxSeq),
                series |-> squeeze(GetItem(ary, seriesSlices(expandedIdxSeq,
                                                             partitioningkey.origslices)))]]

----------------------------------------------------------------------------
(* The labels of binary series files: "key%02d_%05g" and toBinarySeries.    *)

DecimalDigits == <<"0", "1", "2", "3", "4", "5", "6", "7", "8", "9">>

\* str(n) and the number of its characters, n >= 0
RECURSIVE decimal(_)
decimal(n) == IF n < 10 THEN DecimalDigits[n + 1]
              ELSE decimal(n \div 10) \o DecimalDigits[(n % 10) + 1]

RECURSIVE numDigits(_)
numDigits(n) == IF n < 10 THEN 1 ELSE 1 + numDigits(n \div 10)

\* str, of len characters, padded with zeros on the left to the width
RECURSIVE zeroPad(_, _, _)
zeroPad(str, len, width) ==
    IF len >= width THEN str ELSE zeroPad("0" \o str, len + 1, width)

\* "%02d" % n, n >= 0
formatD02(n) == zeroPad(decimal(n), numDigits(n), 2)

\* n without the zeros at its end, n > 0
RECURSIVE stripZeros(_)
stripZeros(n) == IF n % 10 = 0 THEN stripZeros(n \div 10) ELSE n

\* the digits "%g" keeps of k: k in units of 10^(exp10 - 5), rounded to the
\* nearest, ties to even
roundSignificant(k, exp10) ==
    LET unit == 10 ^ (exp10 - 5)
        q == k \div unit
        r == k % unit
    IN IF 2 * r > unit \/ (2 * r = unit /\ q % 2 = 1) THEN q + 1 ELSE q

\* the scientific form d.ddddde+XX of the six digits q and the exponent exp10
scientific(q, exp10) ==
    IF q = 1000000 THEN "1e+" \o formatD02(exp10 + 1)
    ELSE decimal(q \div 100000)
         \o (IF q % 100000 = 0 THEN ""
             ELSE "." \o zeroPad(decimal(stripZeros(q % 100000)),
                                 numDigits(stripZeros(q % 100000)),
                                 5 - (numDigits(q) - numDigits(stripZeros(q)))))
         \o "e+" \o formatD02(exp10)

\* "%05g" % k for an integer k >= 0 (a spatial key holds the starts of
\* slices): six significant digits, in decimal notation below 10^6 and in
\* scientific notation from there on, at least five characters
formatG05(k) ==
    IF k < 1000000 THEN zeroPad(decimal(k), numDigits(k), 5)
    ELSE scientific(roundSignificant(k, numDigits(k) - 1), numDigits(k) - 1)

\* sep.join(strs)
RECURSIVE join(_, _)
join(sep, strs) ==
    IF strs = <<>> THEN ""
    ELSE IF Len(strs) = 1 THEN strs[1]
    ELSE strs[1] \o sep \o join(sep, Tail(strs))

\* ["key%02d_%05g" % (ki, k) for (ki, k) in enumerate(blockKey)]
keyLabels(blockKey) ==
    [i \in 1..Len(blockKey) |-> "key" \o formatD02(i - 1) \o "_" \o formatG05(blockKey[i])]

\* the label of the reversed key
getBinarySeriesNameForReversedKey(blockKey) ==
    join("-", Reversed(keyLabels(Reversed(blockKey))))

\* ImageBlocks.getBinarySeriesNameForKey
getBinarySeriesNameForKey(blockKey) == join("-", Reversed(keyLabels(blockKey)))

\* struct.Struct('h' * n).pack(*key): two bytes per number, the low one first;
\* struct.error for a number that is no signed 16-bit integer
packOk(key) == \A i \in 1..Len(key) : key[i] >= -32768 /\ key[i] <= 32767
pack(key) ==
    Concat([i \in 1..Len(key) |-> <<(key[i] + 65536) % 256, ((key[i] + 65536) \div 256) % 256>>])

\* series.tostring() for a series of uint8: one byte per timepoint
tostring(series) ==
    IF series.shape = <<>> THEN <<series.data[<<>>]>>
    ELSE [i \in 1..series.shape[1] |-> series.data[<<i - 1>>]]

\* the buffer blockToBinarySeries fills from the (key, series) pairs
bufferOf(records) ==
    Concat([k \in 1..Len(records) |-> pack(records[k].key) \o tostring(records[k].series)])

\* blockToBinarySeries(kv) of toBinarySeries
blockToBinarySeries(blockKey, blockVal) ==
    LET label == getBinarySeriesNameForKey(spatialKey(blockKey)) \o ".bin"
        records == toSeriesIter(blockKey, blockVal)
    IN IF \E k \in 1..Len(records) : ~packOk(records[k].key)
       THEN [err |-> "struct.error", ret |-> None]
       ELSE [err |-> "", ret |-> Some([label |-> label, val |-> bufferOf(records)])]

----------------------------------------------------------------------------
(* The volumes the model partitions. *)

\* the position of an index tuple in row-major order
RECURSIVE Linear(_, _)
Linear(idx, shape) ==
    IF idx = <<>> THEN 0
    ELSE idx[1] * Prod(Tail(shape)) + Linear(Tail(idx), Tail(shape))

\* pattern 1: every element of every timepoint differs and none is zero;
\* pattern 2: zeros and repeated values
Pixel(pattern, t, idx, shape, T) ==
    IF pattern = 1 THEN 1 + t + T * Linear(idx, shape)
    ELSE (t + Sum(idx)) % 2

Volume(pattern, t, shape, T) ==
    [shape |-> shape, data |-> [idx \in Indices(shape) |-> Pixel(pattern, t, idx, shape, T)]]

Patterns == {1, 2}

\* the shapes of the volumes: every shape of one or two dimensions up to
\* MaxDim, and the shapes of the documented examples
ExampleDims == {<<7>>, <<12, 12>>, <<2, 1, 2>>}
DimsChoices == SeqsOfLen(1..MaxDim, 1) \cup SeqsOfLen(1..MaxDim, 2) \cup ExampleDims

\* the splitsPerDim passed to the constructor: zero entries, entries larger
\* than the dimension they split and tuples of another length included
ExampleSplits == {<<2, 1, 2>>, <<1, 1, 1>>, <<1, 2, -1>>, <<MaxDim + 1>>}
SplitsChoices == SeqsOfLen(0..MaxDim, 1) \cup SeqsOfLen(0..MaxDim, 2) \cup ExampleSplits

----------------------------------------------------------------------------
(* The strategy object and the calls on it. *)

Init ==
    /\ pc = "new"
    /\ splitsPerDim = None
    /\ slices = None
    /\ npartitions = None
    /\ dims = None
    /\ nimages = None
    /\ images = None
    /\ op = ""
    /\ arg = None
    /\ ret = None
    /\ err = ""
    /\ rdd = None
    /\ last = None

\* __init__(splitsPerDim): the fields of the new strategy
init(sp) ==
    /\ IF normalizeSplitsOk(sp)
       THEN /\ pc' = "constructed"
            /\ splitsPerDim' = sp
            /\ npartitions' = Some(Prod(sp))
            /\ err' = ""
       ELSE /\ pc' = "failed"
            /\ err' = "ValueError"
            /\ UNCHANGED <<splitsPerDim, npartitions>>
    /\ UNCHANGED <<slices, dims, nimages, images, rdd>>

\* ImageBlocksPartitioningStrategy(splitsPerDim)
Construct(sp) ==
    /\ pc = "new"
    /\ op' = "init"
    /\ arg' = sp
    /\ ret' = None
    /\ init(sp)
    /\ UNCHANGED last

\* return ImageBlocksPartitioningStrategy(splits)
returnStrategy(sp) ==
    /\ init(sp)
    /\ ret' = IF normalizeSplitsOk(sp) THEN Some(sp) ELSE None

\* ImageBlocksPartitioningStrategy.generateFromBlockSize(blockSize, dims,
\* nimages, datatype): the splits found are handed to the constructor. last
\* keeps the call before this one.
GenerateFromBlockSize(blockSize, dm, n, datatype) ==
    /\ pc \in {"new", "constructed"}
    /\ op' = "generateFromBlockSize"
    /\ arg' = [blockSize |-> blockSize, dims |-> dm, nimages |-> n, datatype |-> datatype]
    /\ last' = IF op = "generateFromBlockSize"
               THEN Some([blockSize |-> arg.blockSize, splitsPerDim |-> Val(ret)])
               ELSE None
    /\ returnStrategy(generateFromBlockSize(blockSize, dm, n, datatype))

\* strategy.setImages(images), images of the given shape and number
SetImages(dm, T, pattern) ==
    /\ pc = "constructed"
    /\ op' = "setImages"
    /\ arg' = <<dm, T, pattern>>
    /\ ret' = None
    /\ dims' = dm
    /\ nimages' = T
    /\ images' = [t \in 0..(T - 1) |-> Volume(pattern, t, dm, T)]
    /\ IF validateSplitsForImageOk(splitsPerDim, dm)
       THEN /\ pc' = "ready"
            /\ slices' = Some(generateSlices(splitsPerDim, dm))
            /\ err' = ""
       ELSE /\ pc' = "failed"
            /\ err' = "ValueError"
            /\ UNCHANGED slices
    /\ UNCHANGED <<splitsPerDim, npartitions, rdd, last>>

\* The calls below leave the strategy and the images as they are: each is made
\* on the strategy as setImages left it, and what it was given and what it
\* returned are kept in op, arg, ret and err.

\* strategy.partitionFunction((tpidx, imgary)) on one record of the images
PartitionFunction(t) ==
    /\ pc = "ready"
    /\ op = "setImages"
    /\ t \in DOMAIN images
    /\ op' = "partitionFunction"
    /\ arg' = <<t, images[t]>>
    /\ ret' = Some(partitionFunction(Val(slices), nimages, t, images[t]))
    /\ err' = ""
    /\ UNCHANGED <<pc, splitsPerDim, slices, npartitions, dims, nimages, images, rdd, last>>

\* the timepoints of a group, in the order their records are delivered: every
\* sequence of distinct timepoints, the empty one included
Orderings(T) ==
    {s \in UNION {SeqsOfLen(0..(T - 1), n) : n \in 0..T} :
        \A i, j \in 1..Len(s) : i # j => s[i] # s[j]}

\* s without the elements that fail keep
RECURSIVE SelectRecords(_, _)
SelectRecords(s, sk) ==
    IF s = <<>> THEN <<>>
    ELSE (IF spatialKey(s[1].key) = sk THEN <<s[1]>> ELSE <<>>)
         \o SelectRecords(Tail(s), sk)

\* the records with spatial key sk among those partitionFunction returns for
\* the timepoints tps, in that order
RECURSIVE GroupFor(_, _)
GroupFor(sk, tps) ==
    IF tps = <<>> THEN <<>>
    ELSE SelectRecords(partitionFunction(Val(slices), nimages, tps[1], images[tps[1]]), sk)
         \o GroupFor(sk, Tail(tps))

\* the spatial keys of the blocks of the images
SpatialKeys ==
    LET recs == partitionFunction(Val(slices), nimages, 0, images[0])
    IN {spatialKey(recs[k].key) : k \in 1..Len(recs)}

\* strategy.blockingFunction((spatialIdx, partitionedSequence)) on the records
\* of one spatial key
BlockingFunction(sk, tps) ==
    /\ pc = "ready"
    /\ op = "setImages"
    /\ op' = "blockingFunction"
    /\ arg' = GroupFor(sk, tps)
    /\ LET r == blockingFunction(GroupFor(sk, tps))
       IN /\ ret' = r.ret
          /\ err' = r.err
    /\ UNCHANGED <<pc, splitsPerDim, slices, npartitions, dims, nimages, images, rdd, last>>

\* ImageBlocks.toSeriesIter(key, ary) on the block blockingFunction returned
ToSeriesIter ==
    /\ pc = "ready"
    /\ op = "blockingFunction"
    /\ err = ""
    /\ op' = "toSeriesIter"
    /\ arg' = Val(ret)
    /\ ret' = Some(toSeriesIter(Val(ret).key, Val(ret).val))
    /\ err' = ""
    /\ UNCHANGED <<pc, splitsPerDim, slices, npartitions, dims, nimages, images, rdd, last>>

----------------------------------------------------------------------------
(* The pipeline from images to series: flatMap(partitionFunction), then     *)
(* groupBy(spatialKey) and map(blockingFunction), then                      *)
(* flatMap(toSeriesIter). rdd holds the records of the stage last run.      *)

\* the distinct spatial keys of the records, in the order they first appear
RECURSIVE DistinctKeys(_, _)
DistinctKeys(recs, seen) ==
    IF recs = <<>> THEN <<>>
    ELSE LET sk == spatialKey(recs[1].key)
         IN IF sk \in seen THEN DistinctKeys(Tail(recs), seen)
            ELSE <<sk>> \o DistinctKeys(Tail(recs), seen \cup {sk})

\* every order in which the records of the images can be processed
FullOrderings(T) == {s \in Orderings(T) : Len(s) = T}

\* the records partitionFunction returns, the images taken in the given order
FlatMapPartition(order) ==
    /\ pc = "ready"
    /\ op = "setImages"
    /\ op' = "flatMap(partitionFunction)"
    /\ arg' = order
    /\ rdd' = Some(Concat([i \in 1..Len(order) |->
                    partitionFunction(Val(slices), nimages, order[i], images[order[i]])]))
    /\ ret' = None
    /\ err' = ""
    /\ UNCHANGED <<pc, splitsPerDim, slices, npartitions, dims, nimages, images, last>>

\* the records are grouped by spatial key and blockingFunction is applied to
\* each group
GroupByBlocking ==
    /\ op = "flatMap(partitionFunction)"
    /\ op' = "groupBy.map(blockingFunction)"
    /\ arg' = None
    /\ LET recs == Val(rdd)
           keys == DistinctKeys(recs, {})
           results == [k \in 1..Len(keys) |-> blockingFunction(SelectRecords(recs, keys[k]))]
       IN IF \E k \in 1..Len(keys) : results[k].err # ""
          THEN /\ err' = results[CHOOSE k \in 1..Len(keys) : results[k].err # ""].err
               /\ rdd' = None
          ELSE /\ err' = ""
               /\ rdd' = Some([k \in 1..Len(keys) |-> Val(results[k].ret)])
    /\ ret' = None
    /\ UNCHANGED <<pc, splitsPerDim, slices, npartitions, dims, nimages, images, last>>

\* ImageBlocks.toSeries: flatMap(toSeriesIter) over the assembled blocks
ToSeries ==
    /\ op = "groupBy.map(blockingFunction)"
    /\ err = ""
    /\ op' = "flatMap(toSeriesIter)"
    /\ arg' = None
    /\ rdd' = Some(Concat([k \in 1..Len(Val(rdd)) |->
                    toSeriesIter(Val(rdd)[k].key, Val(rdd)[k].val)]))
    /\ ret' = None
    /\ err' = ""
    /\ UNCHANGED <<pc, splitsPerDim, slices, npartitions, dims, nimages, images, last>>

\* ImageBlocks.getBinarySeriesNameForKey(blockKey)
GetBinarySeriesNameForKey(blockKey) ==
    /\ pc = "new"
    /\ op = ""
    /\ op' = "getBinarySeriesNameForKey"
    /\ arg' = blockKey
    /\ ret' = Some(getBinarySeriesNameForKey(blockKey))
    /\ err' = ""
    /\ UNCHANGED <<pc, splitsPerDim, slices, npartitions, dims, nimages, images, rdd, last>>

\* the block of one cell at the spatial key, of T timepoints
CellBlockKey(key, T) ==
    ImageBlocksGroupingKey(<<T>> \o [i \in 1..Len(key) |-> key[i] + 1],
                           <<SliceNone>> \o [i \in 1..Len(key) |-> Slice(key[i], key[i] + 1, 1)])
CellBlockVal(key, T) ==
    [shape |-> <<T>> \o [i \in 1..Len(key) |-> 1],
     data |-> [idx \in Indices(<<T>> \o [i \in 1..Len(key) |-> 1]) |-> 1 + idx[1]]]

\* blockToBinarySeries((blockKey, blockVal)), as toBinarySeries maps it over
\* the blocks, for the block of one cell at the spatial key
BlockToBinarySeries(key, T) ==
    /\ pc = "new"
    /\ op = ""
    /\ op' = "blockToBinarySeries"
    /\ arg' = [key |-> CellBlockKey(key, T), val |-> CellBlockVal(key, T)]
    /\ ret' = blockToBinarySeries(CellBlockKey(key, T), CellBlockVal(key, T)).ret
    /\ err' = blockToBinarySeries(CellBlockKey(key, T), CellBlockVal(key, T)).err
    /\ UNCHANGED <<pc, splitsPerDim, slices, npartitions, dims, nimages, images, rdd, last>>

Datatypes == {"uint8", "int16"}

Next ==
    \/ \E sp \in SplitsChoices : Construct(sp)
    \/ /\ pc = "new"
       /\ \E blockSize \in 0..MaxDim, dm \in SeqsOfLen(1..MaxDim, 2), T \in 1..MaxT,
             datatype \in Datatypes : GenerateFromBlockSize(blockSize, dm, T, datatype)
    \/ \E dm \in DimsChoices, T \in 1..MaxT, pattern \in Patterns : SetImages(dm, T, pattern)
    \/ \E t \in 0..(MaxT - 1) : PartitionFunction(t)
    \/ /\ pc = "ready" /\ op = "setImages"
       /\ \E sk \in SpatialKeys, tps \in Orderings(nimages) : BlockingFunction(sk, tps)
    \/ ToSeriesIter
    \/ /\ pc = "ready"
       /\ \E order \in FullOrderings(nimages) : FlatMapPartition(order)
    \/ GroupByBlocking
    \/ ToSeries

Spec == Init /\ [][Next]_vars

----------------------------------------------------------------------------
(* The block size estimator on its own: generateFromBlockSize is called, and *)
(* called once more with a larger block size for the same images.            *)

\* the dimensions handed to the estimator: every shape of one or two
\* dimensions up to MaxEstDim, and the shape of the documented example
ExampleEstDims == <<5, 10, 3>>
EstDimsChoices == SeqsOfLen(1..MaxEstDim, 1) \cup SeqsOfLen(1..MaxEstDim, 2)
                    \cup {ExampleEstDims}

\* the block sizes requested: every size from -1 to MaxBlockSize and, for the
\* example, the sizes of the series of one plane of 50 cells, of the whole
\* volume of 150 cells and of one cell more
EstBlockSizes(dm, n, datatype) ==
    (-1..MaxBlockSize)
    \cup (IF dm = ExampleEstDims
          THEN {c * n * itemsize(datatype) : c \in {50, 150, 151}}
          ELSE {})

NextEst ==
    \/ /\ pc = "new"
       /\ \E dm \in EstDimsChoices, n \in 1..MaxEstImages, datatype \in Datatypes :
            \E blockSize \in EstBlockSizes(dm, n, datatype) :
                GenerateFromBlockSize(blockSize, dm, n, datatype)
    \/ /\ op = "generateFromBlockSize"
       /\ IsNone(last)
       /\ \E blockSize \in EstBlockSizes(arg.dims, arg.nimages, arg.datatype) :
            /\ blockSize > arg.blockSize
            /\ GenerateFromBlockSize(blockSize, arg.dims, arg.nimages, arg.datatype)

SpecEst == Init /\ [][NextEst]_vars

----------------------------------------------------------------------------
(* The labels of the binary series files on their own.                      *)

\* the coordinates of the spatial keys: the small ones, and those at which
\* the number of digits, the notation or the packing of the key changes
ExampleCoords == {10, 99, 100, 9999, 10000, 32767, 32768, 99999, 100000, 1000000, 1234567}
KeyCoords == (0..MaxCoord) \cup ExampleCoords
KeyChoices == SeqsOfLen(KeyCoords, 1) \cup SeqsOfLen(KeyCoords, 2)
                \cup SeqsOfLen({0, 5, 10, 99999}, MaxKeyLen)

NextLabel ==
    \/ \E blockKey \in KeyChoices : GetBinarySeriesNameForKey(blockKey)
    \/ \E key \in KeyChoices, T \in 1..MaxT : BlockToBinarySeries(key, T)

SpecLabel == Init /\ [][NextLabel]_vars

----------------------------------------------------------------------------
(* Properties of the strategy and of the pipeline, checked under Spec. *)

\* 1 <= splitsPerDim[i] <= dims[i] for every i, and as many splits as dimensions
ValidSplits(sp, dm) ==
    /\ Len(sp) = Len(dm)
    /\ \A i \in 1..Len(sp) : 1 <= sp[i] /\ sp[i] <= dm[i]

SliceLength(sl) == Val(sl.stop) - Val(sl.start)

\* C1: for valid splits, __generateSlices returns for each dimension i
\* exactly splitsPerDim[i] unit-step slices that start at 0, are contiguous,
\* do not overlap, end at dims[i], and of which the first (dims[i] mod
\* splitsPerDim[i]) have length dims[i] div splitsPerDim[i] + 1 and the rest
\* dims[i] div splitsPerDim[i]; a dimension of 7 split in 3 gives 3, 2, 2.
C1_SlicesTileEachDimension ==
    (pc = "ready" /\ ValidSplits(splitsPerDim, dims)) =>
        /\ Len(Val(slices)) = Len(dims)
        /\ \A i \in 1..Len(dims) :
            LET ds == Val(slices)[i]
                n == splitsPerDim[i]
                q == dims[i] \div n
                r == dims[i] % n
            IN /\ Len(ds) = n
               /\ Val(ds[1].start) = 0
               /\ \A k \in 2..n : Val(ds[k].start) = Val(ds[k - 1].stop)
               /\ Val(ds[n].stop) = dims[i]
               /\ \A k \in 1..n : /\ SliceLength(ds[k]) = (IF k <= r THEN q + 1 ELSE q)
                                  /\ ds[k].step = Some(1)
               /\ \A j, k \in 1..n : j < k => Val(ds[j].stop) <= Val(ds[k].start)
               /\ \A j, k \in 1..n : SliceLength(ds[j]) - SliceLength(ds[k]) <= 1
               /\ (dims[i] = 7 /\ n = 3) =>
                    [k \in 1..n |-> SliceLength(ds[k])] = <<3, 2, 2>>

\* C1 witness: a dimension of 7 has been split in 3 slices of lengths 3, 2, 2
C1_Witness ==
    /\ pc = "ready"
    /\ dims = <<7>>
    /\ splitsPerDim = <<3>>
    /\ slices = Some(<< <<Slice(0, 3, 1), Slice(3, 5, 1), Slice(5, 7, 1)>> >>)

\* C6 as claimed: whenever setImages has succeeded, and so whenever slices
\* have been generated, the splits are as many as the dimensions and
\* 1 <= splitsPerDim[i] <= dims[i]. The code compares only the lengths.
C6_SplitsWithinDims ==
    (pc = "ready" \/ ~IsNone(slices)) => ValidSplits(splitsPerDim, dims)

\* C7: for valid splits, partitionFunction returns product(splitsPerDim)
\* pairs, one per combination of the slices of the dimensions, with distinct
\* spatial keys; each block has shape [1] + the lengths of its slices and
\* the values of the volume in that region, each key has origshape
\* [nimages] + the volume's shape, origslices [slice(t, t+1)] + the slices
\* used, and temporal key t; a 12 x 12 volume split (2, 2) gives 4 blocks of
\* 6 x 6.
C7_PartitionFunctionBlocks ==
    (op = "partitionFunction" /\ ValidSplits(splitsPerDim, dims)) =>
        LET t == arg[1]
            imgary == arg[2]
            out == Val(ret)
            n == Len(dims)
        IN /\ Len(out) = Prod(splitsPerDim)
           /\ \A j, k \in 1..Len(out) :
                j # k => spatialKey(out[j].key) # spatialKey(out[k].key)
           /\ \A k \in 1..Len(out) :
                LET key == out[k].key
                    block == out[k].val
                    used == Tail(key.origslices)
                IN /\ Len(used) = n
                   /\ \A i \in 1..n :
                        \E m \in 1..Len(Val(slices)[i]) : used[i] = Val(slices)[i][m]
                   /\ block.shape = <<1>> \o [i \in 1..n |-> SliceLength(used[i])]
                   /\ \A idx \in Indices(block.shape) :
                        block.data[idx] =
                            imgary.data[[i \in 1..n |-> idx[i + 1] + Val(used[i].start)]]
                   /\ key.origshape = <<nimages>> \o imgary.shape
                   /\ key.origslices[1] = Slice(t, t + 1, 1)
                   /\ temporalKey(key) = Some(t)
           /\ (dims = <<12, 12>> /\ splitsPerDim = <<2, 2>>) =>
                /\ Len(out) = 4
                /\ \A k \in 1..Len(out) : out[k].val.shape = <<1, 6, 6>>

\* C7 witness: partitionFunction has returned the 4 blocks of a 12 x 12
\* volume split (2, 2)
C7_Witness ==
    /\ op = "partitionFunction"
    /\ dims = <<12, 12>>
    /\ splitsPerDim = <<2, 2>>
    /\ Len(Val(ret)) = 4

\* the temporal keys of a group are integers and pairwise distinct
DistinctTemporalKeys(group) ==
    \A i, j \in 1..Len(group) :
        i # j => temporalKey(group[i].key) # temporalKey(group[j].key)

\* row t of an assembled block, as a block of one timepoint
Row(ary, t) ==
    GetItem(ary, <<Slice(t, t + 1, 1)>> \o [i \in 1..(Len(ary.shape) - 1) |-> SliceNone])

\* C8: for a non-empty group with one spatial key and distinct temporal
\* keys, in whatever order, blockingFunction returns an array of
\* origshape[0] rows; row t is the block of the element with temporal key t
\* when there is one and zeros otherwise; the key returned has the same
\* origshape and origslices [slice(None)] + the spatial slices of the group;
\* the group in reverse order gives the same result.
C8_BlockingFunctionAssembles ==
    (op = "blockingFunction" /\ Len(arg) > 0 /\ DistinctTemporalKeys(arg)) =>
        /\ err = ""
        /\ LET key == Val(ret).key
               ary == Val(ret).val
           IN /\ ary.shape = <<arg[1].key.origshape[1]>> \o Tail(arg[1].val.shape)
              /\ ary.shape[1] = nimages
              /\ \A t \in 0..(ary.shape[1] - 1) :
                    IF \E i \in 1..Len(arg) : temporalKey(arg[i].key) = Some(t)
                    THEN \A i \in 1..Len(arg) :
                            temporalKey(arg[i].key) = Some(t) => Row(ary, t) = arg[i].val
                    ELSE Row(ary, t) = zeros(<<1>> \o Tail(ary.shape))
              /\ key.origshape = arg[1].key.origshape
              /\ key.origslices[1] = SliceNone
              /\ \A i \in 1..Len(arg) : Tail(key.origslices) = Tail(arg[i].key.origslices)
              /\ blockingFunction(Reversed(arg)) = [err |-> "", ret |-> ret]

\* C8 witness: blockingFunction has assembled a group that holds timepoint 1
\* alone, with a value other than zero, into an array of two rows
C8_Witness ==
    /\ op = "blockingFunction"
    /\ err = ""
    /\ Len(arg) = 1
    /\ temporalKey(arg[1].key) = Some(1)
    /\ \E idx \in DOMAIN arg[1].val.data : arg[1].val.data[idx] # 0
    /\ Val(ret).val.shape[1] = 2

\* C9 as claimed: blockingFunction on an empty group raises a validation
\* error, from a check of the group, and returns nothing.
C9_EmptyGroupValidationError ==
    (op = "blockingFunction" /\ Len(arg) = 0) =>
        (err \in {"ValidationError", "ValueError"} /\ IsNone(ret))

\* C9 as amended: blockingFunction on an empty group raises AttributeError,
\* from the use of the first key, which is still None, and returns nothing.
C9_EmptyGroupAttributeError ==
    (op = "blockingFunction" /\ Len(arg) = 0) =>
        (err = "AttributeError" /\ IsNone(ret))

\* C9 witness: blockingFunction has been called on an empty group
C9_Witness ==
    /\ op = "blockingFunction"
    /\ Len(arg) = 0
    /\ err = "AttributeError"

\* the number of records of the series RDD with the given key
CountKey(recs, c) == Cardinality({k \in 1..Len(recs) : recs[k].key = c})

\* the values at coordinate c of the images, timepoint after timepoint, as
\* the squeezed array toSeriesIter yields: one axis of nimages elements, or no
\* axis when there is one image
OriginalSeries(c) ==
    IF nimages = 1
    THEN [shape |-> <<>>, data |-> [idx \in {<<>>} |-> images[0].data[c]]]
    ELSE [shape |-> <<nimages>>,
          data |-> [idx \in Indices(<<nimages>>) |-> images[idx[1]].data[c]]]

\* C2: for valid splits, partitionFunction on every image, the records
\* grouped by spatial key, blockingFunction on every group and toSeriesIter on
\* every assembled block yield every coordinate of the volume exactly once,
\* with the values of the images at that coordinate in time order.
C2_RoundTrip ==
    (op = "flatMap(toSeriesIter)" /\ ValidSplits(splitsPerDim, dims)) =>
        LET recs == Val(rdd)
        IN /\ Len(recs) = Prod(dims)
           /\ \A c \in Indices(dims) : CountKey(recs, c) = 1
           /\ \A k \in 1..Len(recs) :
                /\ recs[k].key \in Indices(dims)
                /\ recs[k].series = OriginalSeries(recs[k].key)

\* C2 witness: the series of a 2 x 3 volume of 2 timepoints, every element
\* different, split (2, 2), have been rebuilt from images taken in the order 1, 0
C2_Witness ==
    /\ op = "flatMap(toSeriesIter)"
    /\ dims = <<2, 3>>
    /\ splitsPerDim = <<2, 2>>
    /\ nimages = 2
    /\ images[1].data[<<1, 2>>] = 12
    /\ Len(Val(rdd)) = 6

----------------------------------------------------------------------------
(* The block size estimator. *)

\* the tilings of the rightmost-dimension-first ordering: the dimensions right
\* of some dimension k are split into single cells, those left of it are not
\* split, and k is split into 1..dm[k] parts
Tilings(dm) ==
    {s \in SeqsOfLen(1..(CHOOSE m \in {dm[i] : i \in 1..Len(dm)} :
                                \A i \in 1..Len(dm) : dm[i] <= m), Len(dm)) :
        \E k \in 1..Len(dm) :
            /\ s[k] <= dm[k]
            /\ \A i \in 1..Len(dm) : /\ i < k => s[i] = 1
                                     /\ i > k => s[i] = dm[i]}

\* the average cell count per block product(dims[i] / splits[i]) of tiling s
\* is at least blockSize / (nimages * itemsize), in exact arithmetic
Adequate(s, call) ==
    Prod(call.dims) * call.nimages * itemsize(call.datatype) >= call.blockSize * Prod(s)

\* C3: generateFromBlockSize returns the finest tiling of the
\* rightmost-dimension-first ordering whose average cell count per block is at
\* least blockSize / (nimages * itemsize), the coarsest tiling (1,...,1) when
\* there is none, and (1,1,3) for dims (5,10,3) and the block size of one
\* z-plane of series.
C3_FinestAdequateTiling ==
    (op = "generateFromBlockSize" /\ err = "") =>
        /\ Val(ret) \in Tilings(arg.dims)
        /\ IF \E s \in Tilings(arg.dims) : Adequate(s, arg)
           THEN /\ Adequate(Val(ret), arg)
                /\ \A s \in Tilings(arg.dims) :
                        Adequate(s, arg) => Prod(s) <= Prod(Val(ret))
           ELSE Val(ret) = [i \in 1..Len(arg.dims) |-> 1]
        /\ (/\ arg.dims = ExampleEstDims
            /\ arg.blockSize = 50 * arg.nimages * itemsize(arg.datatype))
               => Val(ret) = <<1, 1, 3>>

\* C4, as claimed: of two calls for the same images with positive block sizes
\* b1 < b2, the one for b2 never returns splits of a smaller product.
C4_LargerTargetNeverFewerBlocks ==
    (/\ op = "generateFromBlockSize" /\ ~IsNone(last)
     /\ Val(last).blockSize > 0 /\ Val(last).blockSize < arg.blockSize) =>
        Prod(Val(ret)) >= Prod(Val(last).splitsPerDim)

\* C4, amended: of two calls for the same images with positive block sizes
\* b1 < b2, the one for b2 never returns splits of a larger product.
C4_LargerTargetNeverMoreBlocks ==
    (/\ op = "generateFromBlockSize" /\ ~IsNone(last)
     /\ Val(last).blockSize > 0 /\ Val(last).blockSize < arg.blockSize) =>
        Prod(Val(ret)) <= Prod(Val(last).splitsPerDim)

\* two calls with positive block sizes, the second of which returns fewer blocks
C4_Witness ==
    /\ op = "generateFromBlockSize"
    /\ ~IsNone(last)
    /\ Val(last).blockSize > 0
    /\ Val(last).blockSize < arg.blockSize
    /\ Prod(Val(ret)) < Prod(Val(last).splitsPerDim)

\* C5: generateFromBlockSize rejects a block size that is not positive with an
\* error and returns no strategy.
C5_NonPositiveBlockSizeRejected ==
    (op = "generateFromBlockSize" /\ arg.blockSize <= 0) =>
        /\ err # ""
        /\ IsNone(ret)

----------------------------------------------------------------------------
(* The labels of binary series. *)

\* n as two and as five decimal digits
TwoDigits(n) == DecimalDigits[((n \div 10) % 10) + 1] \o DecimalDigits[(n % 10) + 1]
FiveDigits(n) ==
    DecimalDigits[((n \div 10000) % 10) + 1] \o DecimalDigits[((n \div 1000) % 10) + 1]
        \o DecimalDigits[((n \div 100) % 10) + 1] \o TwoDigits(n)

\* the components key<i>_<coords[i]> for i = n - 1 down to 0, joined by '-';
\* coords[i] is written for the (i+1)-th element of the sequence coords
RECURSIVE ComponentsDownFrom(_, _)
ComponentsDownFrom(coords, n) ==
    IF n = 0 THEN ""
    ELSE "key" \o TwoDigits(n - 1) \o "_" \o FiveDigits(coords[n])
         \o (IF n = 1 THEN "" ELSE "-" \o ComponentsDownFrom(coords, n - 1))

SmallKey(key) == \A i \in 1..Len(key) : key[i] >= 0 /\ key[i] <= 99999

\* the spatial key of the last call, a call that computes a label
LabelCall == op \in {"getBinarySeriesNameForKey", "blockToBinarySeries"}
LabelKey == IF op = "getBinarySeriesNameForKey" THEN arg ELSE spatialKey(arg.key)

\* the last call returned the label, with ".bin" appended by toBinarySeries
Returned(label) ==
    \/ op = "getBinarySeriesNameForKey" /\ ret = Some(label)
    \/ op = "blockToBinarySeries" /\ err = "" /\ Val(ret).label = label \o ".bin"

\* the labels of the claimed form for the key in which key00 goes with the
\* coordinate k
LabelsWithKey00(key, k) ==
    {ComponentsDownFrom(<<k>> \o others, Len(key)) :
        others \in SeqsOfLen({key[i] : i \in 1..Len(key)}, Len(key) - 1)}

\* C10, as claimed: the label of a spatial key of coordinates in 0..99999 is
\* its components key<i>_<k_i> in decreasing i joined by '-', the rightmost
\* spatial dimension is labelled key00, the key (0,5,10) is labelled
\* key02_00010-key01_00005-key00_00000, and toBinarySeries appends ".bin".
C10_LabelRightmostIsKey00 ==
    (LabelCall /\ SmallKey(LabelKey)) =>
        /\ Returned(ComponentsDownFrom(LabelKey, Len(LabelKey)))
        /\ \E label \in LabelsWithKey00(LabelKey, LabelKey[Len(LabelKey)]) : Returned(label)
        /\ LabelKey = <<0, 5, 10>> => Returned("key02_00010-key01_00005-key00_00000")

\* C10, amended: the label of a spatial key of coordinates in 0..99999 is its
\* components key<i>_<k_i> in decreasing i joined by '-', so that the first
\* (leftmost) coordinate k_0 is labelled key00, the key (0,5,10) is labelled
\* key02_00010-key01_00005-key00_00000, and toBinarySeries appends ".bin"
\* whenever the coordinates can be packed as 16-bit integers.
C10_LabelLeftmostIsKey00 ==
    (LabelCall /\ SmallKey(LabelKey) /\ (op = "blockToBinarySeries" => packOk(LabelKey))) =>
        /\ Returned(ComponentsDownFrom(LabelKey, Len(LabelKey)))
        /\ \E label \in LabelsWithKey00(LabelKey, LabelKey[1]) : Returned(label)
        /\ LabelKey = <<0, 5, 10>> => Returned("key02_00010-key01_00005-key00_00000")

\* the key (0,5,10) has been labelled, by toBinarySeries
C10_Witness ==
    /\ op = "blockToBinarySeries"
    /\ spatialKey(arg.key) = <<0, 5, 10>>
    /\ err = ""
    /\ Val(ret).label = "key02_00010-key01_00005-key00_00000.bin"

============================================================================
